---------------------------- MODULE Spec2Model ----------------------------
(* Model of MKstatistics.py: a script that loads a measurements table,     *)
(* cleans its columns, renders 20 histograms and one scatter plot into a   *)
(* graphs document, builds 11 summary tables into a tables document and    *)
(* merges both into the final report.                                      *)
(*                                                                         *)
(* Numbers are fixed point: one unit is 0.001, so 0.01 is 10 and 2 is      *)
(* 2000.  Arithmetic is exact; the rounding of binary floating point is    *)
(* not modelled.  Column names are written in ASCII (um for the micro      *)
(* sign).                                                                  *)
EXTENDS Integers, Sequences, FiniteSets, TLC

VARIABLES pc, file, rows, df, out, exc, list_of_maps, name_list, lists,
          hist_i, fig_ret, figures, open_figs, graphs_pdf, scatter_series,
          tables, tables_pdf, output_pdf

vars == <<pc, file, rows, df, out, exc, list_of_maps, name_list, lists,
          hist_i, fig_ret, figures, open_figs, graphs_pdf, scatter_series,
          tables, tables_pdf, output_pdf>>

-----------------------------------------------------------------------------
(* Bounds and inputs *)

\* largest number of data rows of a measurements file
MaxRows == 3

\* the float not-a-number, a value outside the range of every measurement
NaN == -999999999

\* plot_histogram and pdf.savefig(None) use None for "no figure"
None == 0

\* 'Image' values are strings; a string is modelled by its '_'-separated
\* tokens, so <<"a", "1">> is "a_1" and <<"b">> is "b"

\* The rows a measurements file is made of.  MK is the value the row has
\* in its MK-level columns, nuc in its nuclei-level columns and ratio in its
\* ratio columns and in 'Circularity'.
RowPool ==
  { [Image |-> <<"a", "1">>, Name |-> "MK", MK |-> 50,    nuc |-> 500,     ratio |-> 1000],
    [Image |-> <<"a", "2">>, Name |-> "MK", MK |-> 55,    nuc |-> NaN,     ratio |-> 3000],
    [Image |-> <<"b">>,      Name |-> "MK", MK |-> NaN,   nuc |-> 500,     ratio |-> 60],
    [Image |-> <<"a", "1">>, Name |-> "MK", MK |-> 60,    nuc |-> 150000,  ratio |-> -5000],
    [Image |-> <<"b">>,      Name |-> "MK", MK |-> 13000, nuc |-> 2500000, ratio |-> 25000000],
    [Image |-> <<"a", "2">>, Name |-> "MK", MK |-> 50,    nuc |-> 50500,   ratio |-> 1000],
    [Image |-> <<"b">>,      Name |-> "MK", MK |-> 2000,  nuc |-> NaN,     ratio |-> NaN] }

\* the states the measurements file can be in when the script starts
FileStates == {"ok", "missing", "empty", "ragged"}

RECURSIVE SeqsUpTo(_, _)
SeqsUpTo(S, n) ==
  IF n = 0 THEN {<<>>}
  ELSE LET shorter == SeqsUpTo(S, n - 1)
       IN  shorter \cup {Append(s, x) : s \in {t \in shorter : Len(t) = n - 1}, x \in S}

-----------------------------------------------------------------------------
(* The columns of the table *)

MKColumns == {"Number of nuclei", "Area um^2", "Max diameter um", "Min diameter um",
              "Hematoxylin: Min", "Hematoxylin: Max", "Hematoxylin: Mean"}

NucColumns == {"Nuclei Area um^2: Mean", "Nuclei diameter um: Mean Max",
               "Nuclei diameter um: Mean Min", "Nuclei Circularity um: Mean",
               "Nuclei Hematoxylin: Min", "Nuclei Hematoxylin: Max",
               "Nuclei Hematoxylin: Mean", "Nuclei Hematoxylin: Std.Dev."}

RatioColumns == {"Area Ratio %", "Diameter Ratio %: Max", "Diameter Ratio %: Min",
                 "Circularity Ratio %", "Circularity"}

Columns == {"Image", "Name"} \cup MKColumns \cup NucColumns \cup RatioColumns

\* the value of row r in column c
Cell(r, c) ==
  IF c = "Image" THEN r.Image
  ELSE IF c = "Name" THEN r.Name
  ELSE IF c \in MKColumns THEN r.MK
  ELSE IF c \in NucColumns THEN r.nuc
  ELSE r.ratio

\* df[c].tolist()
ColumnToList(table, c) == [i \in 1..Len(table) |-> Cell(table[i], c)]

\* row.to_dict()
to_dict(r) == [c \in Columns |-> Cell(r, c)]

-----------------------------------------------------------------------------
(* filter_list *)

isnan(e) == e = NaN

RECURSIVE filter_from(_, _, _)
filter_from(in_list, k, new_list) ==
  IF k > Len(in_list) THEN new_list
  ELSE filter_from(in_list, k + 1,
                   IF ~isnan(in_list[k]) THEN Append(new_list, in_list[k]) ELSE new_list)

\* filter_list with a slip: a value already kept is not kept again
RECURSIVE filter_dedup_from(_, _, _)
filter_dedup_from(in_list, k, new_list) ==
  IF k > Len(in_list) THEN new_list
  ELSE filter_dedup_from(in_list, k + 1,
         IF ~isnan(in_list[k]) /\ \A j \in 1..Len(new_list) : new_list[j] # in_list[k]
         THEN Append(new_list, in_list[k]) ELSE new_list)

filter_list_dedup(in_list) == filter_dedup_from(in_list, 1, <<>>)

filter_list(in_list) == filter_from(in_list, 1, <<>>)

-----------------------------------------------------------------------------
(* plot_histogram *)

abs(x) == IF x < 0 THEN -x ELSE x

RECURSIVE min_from(_, _, _)
min_from(l, k, m) ==
  IF k > Len(l) THEN m ELSE min_from(l, k + 1, IF l[k] < m THEN l[k] ELSE m)

RECURSIVE max_from(_, _, _)
max_from(l, k, m) ==
  IF k > Len(l) THEN m ELSE max_from(l, k + 1, IF l[k] > m THEN l[k] ELSE m)

\* min(in_list) and max(in_list) of a non-empty list
min(l) == min_from(l, 2, l[1])
max(l) == max_from(l, 2, l[1])

\* gap = abs(max_value) - abs(min_value)
gap_of(in_list) == abs(max(in_list)) - abs(min(in_list))

\* the if/elif chain that selects the bin width (in units of 0.001)
bin_width_of(gap) ==
  IF 10 <= gap /\ gap <= 10 THEN 1
  ELSE IF 100 < gap /\ gap <= 2000 THEN 100
  ELSE IF 2000 < gap /\ gap <= 20000 THEN 1000
  ELSE IF 20000 < gap /\ gap <= 100000 THEN 5000
  ELSE IF 100000 < gap /\ gap <= 1000000 THEN 10000
  ELSE IF 1000000 < gap /\ gap <= 10000000 THEN 50000
  ELSE 1000

\* math.ceil(a / b) for b > 0
ceil_div(a, b) == -((-a) \div b)

num_bins_of(gap) == ceil_div(gap, bin_width_of(gap))

\* The outcome of one call.  raised_at names the statement of the try block
\* that raised ("" when none did): min() raises on an empty list before any
\* figure exists; ax.hist raises on a bin count below 1 after plt.subplots
\* has created the figure and before plt.close(fig) is reached.
plot_histogram(in_list, x_label, y_label) ==
  IF in_list = <<>>
  THEN [raised_at |-> "min", fig_created |-> FALSE, fig_closed |-> FALSE,
        returns_fig |-> FALSE, bin_width |-> 0, num_bins |-> 0,
        x_label |-> x_label, y_label |-> y_label]
  ELSE LET gap == gap_of(in_list)
           num_bins == num_bins_of(gap)
       IN  IF num_bins < 1
           THEN [raised_at |-> "hist", fig_created |-> TRUE, fig_closed |-> FALSE,
                 returns_fig |-> FALSE, bin_width |-> bin_width_of(gap),
                 num_bins |-> num_bins, x_label |-> x_label, y_label |-> y_label]
           ELSE [raised_at |-> "", fig_created |-> TRUE, fig_closed |-> TRUE,
                 returns_fig |-> TRUE, bin_width |-> bin_width_of(gap),
                 num_bins |-> num_bins, x_label |-> x_label, y_label |-> y_label]

-----------------------------------------------------------------------------
(* scatter_plot *)

\* image.split('_')[0]
legend_label(image) == Head(image)

unique_images(in_list_of_maps) ==
  {in_list_of_maps[i]["Image"] : i \in 1..Len(in_list_of_maps)}

\* filtered_maps with a slip: the records are matched on the legend label
filtered_maps_by_label(in_list_of_maps, image) ==
  SelectSeq(in_list_of_maps, LAMBDA item : legend_label(item["Image"]) = legend_label(image))

filtered_maps(in_list_of_maps, image) ==
  SelectSeq(in_list_of_maps, LAMBDA item : item["Image"] = image)

\* one ax.scatter call
scatter_series_of(in_list_of_maps, image, x_label, y_label) ==
  LET fm == filtered_maps(in_list_of_maps, image)
  IN  [image    |-> image,
       label    |-> legend_label(image),
       x_values |-> [k \in 1..Len(fm) |-> fm[k][x_label]],
       y_values |-> [k \in 1..Len(fm) |-> fm[k][y_label]]]

\* the series the figure holds; a Python set is iterated in no fixed order,
\* so the series are a set
scatter_plot(in_list_of_maps, x_label, y_label) ==
  {scatter_series_of(in_list_of_maps, image, x_label, y_label) :
     image \in unique_images(in_list_of_maps)}

-----------------------------------------------------------------------------
(* The module-level configuration *)

\* "Creation of lists": the column each cleaned list is taken from
ListColumn ==
  [num_nuclei_list     |-> "Number of nuclei",
   area_list           |-> "Area um^2",
   nuc_area_list       |-> "Nuclei Area um^2: Mean",
   area_ratio_list     |-> "Area Ratio %",
   max_diameter_list   |-> "Max diameter um",
   nuc_max_diam_list   |-> "Nuclei diameter um: Mean Max",
   max_diam_ratio_list |-> "Diameter Ratio %: Max",
   min_diameter_list   |-> "Min diameter um",
   nuc_min_diam_list   |-> "Nuclei diameter um: Mean Min",
   min_diam_ratio_list |-> "Diameter Ratio %: Min",
   circularity_list    |-> "Circularity",
   nuc_circ_list       |-> "Nuclei Circularity um: Mean",
   circ_ratio_list     |-> "Circularity Ratio %",
   min_hema_list       |-> "Hematoxylin: Min",
   max_hema_list       |-> "Hematoxylin: Max",
   mean_hema_list      |-> "Hematoxylin: Mean",
   nuc_min_hema_list   |-> "Nuclei Hematoxylin: Min",
   nuc_max_hema_list   |-> "Nuclei Hematoxylin: Max",
   nuc_mean_hema_list  |-> "Nuclei Hematoxylin: Mean",
   nuc_std_hema_list   |-> "Nuclei Hematoxylin: Std.Dev."]

ListNames == DOMAIN ListColumn

y_label_MK == "Number of Megakaryocytes"
y_label_nuclei == "Number of Nuclei"

\* the plot_histogram calls of the graphs document, in order
HistCalls ==
  << [list |-> "num_nuclei_list",     x_label |-> "Number of nuclei",            y_label |-> y_label_MK],
     [list |-> "area_list",           x_label |-> "MK Area um^2",                y_label |-> y_label_MK],
     [list |-> "nuc_area_list",       x_label |-> "Nuclei Area um^2",            y_label |-> y_label_nuclei],
     [list |-> "area_ratio_list",     x_label |-> "Area Ratio %",                y_label |-> y_label_MK],
     [list |-> "max_diameter_list",   x_label |-> "MK max diameter um",          y_label |-> y_label_MK],
     [list |-> "nuc_max_diam_list",   x_label |-> "Nuclei mean max diameter um", y_label |-> y_label_nuclei],
     [list |-> "max_diam_ratio_list", x_label |-> "Max diameter Ratio %",        y_label |-> y_label_MK],
     [list |-> "min_diameter_list",   x_label |-> "MK min diameter um",          y_label |-> y_label_MK],
     [list |-> "nuc_min_diam_list",   x_label |-> "Nuclei mean min diameter um", y_label |-> y_label_nuclei],
     [list |-> "min_diam_ratio_list", x_label |-> "Min diameter Ratio %",        y_label |-> y_label_MK],
     [list |-> "circularity_list",    x_label |-> "MK circularity um",           y_label |-> y_label_MK],
     [list |-> "nuc_circ_list",       x_label |-> "Nuclei mean circularity um",  y_label |-> y_label_nuclei],
     [list |-> "circ_ratio_list",     x_label |-> "Circularity Ratio %",         y_label |-> y_label_MK],
     [list |-> "min_hema_list",       x_label |-> "Hematoxylin: Min",            y_label |-> y_label_MK],
     [list |-> "max_hema_list",       x_label |-> "Hematoxylin: Max",            y_label |-> y_label_MK],
     [list |-> "mean_hema_list",      x_label |-> "Hematoxylin: Mean",           y_label |-> y_label_MK],
     [list |-> "nuc_min_hema_list",   x_label |-> "Hematoxylin: Min",            y_label |-> y_label_nuclei],
     [list |-> "nuc_max_hema_list",   x_label |-> "Hematoxylin: Max",            y_label |-> y_label_nuclei],
     [list |-> "nuc_mean_hema_list",  x_label |-> "Hematoxylin: Mean",           y_label |-> y_label_nuclei],
     [list |-> "nuc_std_hema_list",   x_label |-> "Hematoxylin: Std.Dev.",       y_label |-> y_label_nuclei] >>

NumHist == Len(HistCalls)

\* the figure number of the scatter plot: the call after the histograms
ScatterFig == NumHist + 1

\* The create_table calls, in order.  A value is an aggregate (len, sum,
\* np.mean, np.std) over one list.
TableCalls ==
  << [MK_name |-> "Number of megakaryocytes", nuc_name |-> "Number of nuclei",
      MK_agg |-> "len",  MK_list |-> "name_list",         nuc_agg |-> "sum",  nuc_list |-> "num_nuclei_list"],
     [MK_name |-> "MK mean area",             nuc_name |-> "Nuclei mean area",
      MK_agg |-> "mean", MK_list |-> "area_list",         nuc_agg |-> "mean", nuc_list |-> "nuc_area_list"],
     [MK_name |-> "MK area std",              nuc_name |-> "Nuclei area std",
      MK_agg |-> "std",  MK_list |-> "area_list",         nuc_agg |-> "std",  nuc_list |-> "nuc_area_list"],
     [MK_name |-> "MK mean max diameter",     nuc_name |-> "Nuclei mean max diameter",
      MK_agg |-> "mean", MK_list |-> "max_diameter_list", nuc_agg |-> "mean", nuc_list |-> "nuc_max_diam_list"],
     [MK_name |-> "MK max diameter std",      nuc_name |-> "Nuclei max diameter std",
      MK_agg |-> "std",  MK_list |-> "max_diameter_list", nuc_agg |-> "std",  nuc_list |-> "nuc_max_diam_list"],
     [MK_name |-> "MK mean min diameter",     nuc_name |-> "Nuclei mean min diameter",
      MK_agg |-> "mean", MK_list |-> "min_diameter_list", nuc_agg |-> "mean", nuc_list |-> "nuc_min_diam_list"],
     [MK_name |-> "MK min diameter std",      nuc_name |-> "Nuclei min diameter std",
      MK_agg |-> "std",  MK_list |-> "min_diameter_list", nuc_agg |-> "std",  nuc_list |-> "nuc_min_diam_list"],
     [MK_name |-> "MK mean circularity",      nuc_name |-> "Nuclei mean circularity",
      MK_agg |-> "mean", MK_list |-> "circularity_list",  nuc_agg |-> "mean", nuc_list |-> "nuc_circ_list"],
     [MK_name |-> "MK circularity std",       nuc_name |-> "Nuclei circularity std",
      MK_agg |-> "std",  MK_list |-> "circularity_list",  nuc_agg |-> "std",  nuc_list |-> "nuc_circ_list"],
     [MK_name |-> "MK mean hematoxylin",      nuc_name |-> "Nuclei mean hematoxylin",
      MK_agg |-> "mean", MK_list |-> "mean_hema_list",    nuc_agg |-> "mean", nuc_list |-> "nuc_mean_hema_list"],
     [MK_name |-> "MK hematoxylin std",       nuc_name |-> "Nuclei hematoxylin std",
      MK_agg |-> "std",  MK_list |-> "mean_hema_list",    nuc_agg |-> "mean", nuc_list |-> "nuc_std_hema_list"] >>

NumTables == Len(TableCalls)

-----------------------------------------------------------------------------
(* Summary tables *)

\* A computed statistic.  The numeric value of a mean or a standard
\* deviation is not computed: the statistic is the aggregate, the column
\* its list comes from and the number of values it is taken over (n = 0:
\* np.mean and np.std return nan with a warning, sum returns 0).
statistic(agg, list_name, l) ==
  [agg    |-> agg,
   column |-> IF list_name = "name_list" THEN "Name" ELSE ListColumn[list_name],
   n      |-> Len(l)]

\* create_table: the data of the 3 x 2 table
create_table(MK_name, nuc_name, MK_value, nuc_value) ==
  [header |-> <<"Type", "Value">>,
   MK     |-> [name |-> MK_name,  value |-> MK_value],
   nuc    |-> [name |-> nuc_name, value |-> nuc_value]]

-----------------------------------------------------------------------------
(* Documents *)

\* heights in points: Table(..., rowHeights=20) with 3 rows, Spacer(1, 12),
\* and the frame of a letter page (792 high) inside SimpleDocTemplate's
\* default margins (72) and frame padding (6)
RowHeight == 20
RowsPerTable == 3
SpacerHeight == 12
PageHeight == 792
PageMargin == 72
FramePadding == 6

TableHeight == RowsPerTable * RowHeight
FrameHeight == PageHeight - 2 * PageMargin - 2 * FramePadding

figure_page(fig) == [kind |-> "figure", fig |-> fig, content |-> <<>>]
tables_page(content) == [kind |-> "tables", fig |-> None, content |-> content]

\* content of create_pdf_with_tables: every table followed by a spacer
RECURSIVE story_from(_, _, _)
story_from(in_tables, k, content) ==
  IF k > Len(in_tables) THEN content
  ELSE story_from(in_tables, k + 1,
                  content \o << [kind |-> "table",  table |-> k, height |-> TableHeight],
                                [kind |-> "spacer", table |-> 0, height |-> SpacerHeight] >>)

\* in_pdf.build(content): the flowables fill a frame from the top; one that
\* does not fit the room left starts the next page.  cur is the tables on
\* the page being filled, used the height taken on it.
RECURSIVE build_from(_, _, _, _, _)
build_from(content, k, used, cur, pages) ==
  IF k > Len(content) THEN Append(pages, tables_page(cur))
  ELSE LET f == content[k]
           placed == IF f.kind = "table" THEN <<f.table>> ELSE <<>>
       IN  IF used + f.height <= FrameHeight
           THEN build_from(content, k + 1, used + f.height, cur \o placed, pages)
           ELSE build_from(content, k + 1, f.height, placed, Append(pages, tables_page(cur)))

\* the pages of the document create_pdf_with_tables writes
create_pdf_with_tables(in_tables) ==
  build_from(story_from(in_tables, 1, <<>>), 1, 0, <<>>, <<>>)

\* the pages merge_pdfs writes: those of pdf1, then those of pdf2
merge_pdfs(pdf1_pages, pdf2_pages) == pdf1_pages \o pdf2_pages

NoFile == [exists |-> FALSE, pages |-> <<>>]

-----------------------------------------------------------------------------
(* The script, statement by statement *)

Init ==
  /\ pc = "load"
  /\ file \in FileStates
  /\ rows \in (IF file = "ok" THEN SeqsUpTo(RowPool, MaxRows) ELSE {<<>>})
  /\ df = [bound |-> FALSE, rows |-> <<>>]
  /\ out = <<>>
  /\ exc = ""
  /\ list_of_maps = <<>>
  /\ name_list = <<>>
  /\ lists = <<>>
  /\ hist_i = 0
  /\ fig_ret = None
  /\ figures = <<>>
  /\ open_figs = <<>>
  /\ graphs_pdf = NoFile
  /\ scatter_series = {}
  /\ tables = <<>>
  /\ tables_pdf = NoFile
  /\ output_pdf = NoFile

\* try: df = pd.read_csv(...) except ...: print(...)
Load ==
  /\ pc = "load"
  /\ IF file = "ok"
     THEN df' = [bound |-> TRUE, rows |-> rows] /\ out' = out
     ELSE /\ df' = df
          /\ out' = Append(out, CASE file = "missing" -> "Error: The file was not found."
                                  [] file = "empty"   -> "Error: The file is empty or contains no data."
                                  [] OTHER            -> "Error: There was an issue parsing the TSV file.")
  /\ pc' = "maps"
  /\ UNCHANGED <<file, rows, exc, list_of_maps, name_list, lists, hist_i, fig_ret,
                 figures, open_figs, graphs_pdf, scatter_series, tables, tables_pdf,
                 output_pdf>>

\* list_of_maps = []; for index, row in df.iterrows(): ...
\* With df never assigned, evaluating df raises NameError, which nothing
\* catches.
BuildMaps ==
  /\ pc = "maps"
  /\ IF df.bound
     THEN /\ list_of_maps' = [i \in 1..Len(df.rows) |-> to_dict(df.rows[i])]
          /\ pc' = "lists"
          /\ exc' = exc
     ELSE /\ list_of_maps' = <<>>
          /\ pc' = "crashed"
          /\ exc' = "NameError"
  /\ UNCHANGED <<file, rows, df, out, name_list, lists, hist_i, fig_ret, figures,
                 open_figs, graphs_pdf, scatter_series, tables, tables_pdf, output_pdf>>

\* name_list = df['Name'].tolist(); x_list = filter_list(df[column].tolist())
ExtractLists ==
  /\ pc = "lists"
  /\ name_list' = ColumnToList(df.rows, "Name")
  /\ lists' = [l \in ListNames |-> filter_list(ColumnToList(df.rows, ListColumn[l]))]
  /\ pc' = "open_pdf"
  /\ UNCHANGED <<file, rows, df, out, exc, list_of_maps, hist_i, fig_ret, figures,
                 open_figs, graphs_pdf, scatter_series, tables, tables_pdf, output_pdf>>

\* with PdfPages(graphs_pdf) as pdf:
OpenPdf ==
  /\ pc = "open_pdf"
  /\ graphs_pdf' = [exists |-> TRUE, pages |-> <<>>]
  /\ hist_i' = 1
  /\ pc' = "plot"
  /\ UNCHANGED <<file, rows, df, out, exc, list_of_maps, name_list, lists, fig_ret,
                 figures, open_figs, scatter_series, tables, tables_pdf, output_pdf>>

\* pdf.savefig(figure): the figure that is written as the next page.  A
\* Figure object is written whether or not pyplot still manages it; None
\* stands for the active figure, the one pyplot opened last and has not
\* closed, and with no such figure savefig raises ValueError.
savefig_target(figure, open) ==
  IF figure # None THEN figure
  ELSE IF open # <<>> THEN open[Len(open)]
  ELSE None

\* x_fig = plot_histogram(x_list, x_label, y_label)
PlotHistogram ==
  /\ pc = "plot"
  /\ LET c == HistCalls[hist_i]
         r == plot_histogram(lists[c.list], c.x_label, c.y_label)
     IN  /\ figures' = IF r.fig_created
                       THEN figures @@ (hist_i :> [kind |-> "histogram", drawn |-> r.returns_fig,
                                                   bin_width |-> r.bin_width, num_bins |-> r.num_bins,
                                                   x_label |-> r.x_label, y_label |-> r.y_label])
                       ELSE figures
         /\ open_figs' = IF r.fig_created /\ ~r.fig_closed THEN Append(open_figs, hist_i)
                         ELSE open_figs
         /\ fig_ret' = IF r.returns_fig THEN hist_i ELSE None
         /\ out' = IF r.raised_at # "" THEN Append(out, "An error occurred") ELSE out
  /\ pc' = "save"
  /\ UNCHANGED <<file, rows, df, exc, list_of_maps, name_list, lists, hist_i,
                 graphs_pdf, scatter_series, tables, tables_pdf, output_pdf>>

\* pdf.savefig(x_fig) after a plot_histogram call
SaveHistogram ==
  /\ pc = "save"
  /\ LET target == savefig_target(fig_ret, open_figs)
     IN  IF target = None
         THEN /\ exc' = "ValueError"
              /\ pc' = "crashed"
              /\ UNCHANGED <<graphs_pdf, hist_i>>
         ELSE /\ graphs_pdf' = [graphs_pdf EXCEPT !.pages = Append(@, figure_page(target))]
              /\ exc' = exc
              /\ IF hist_i < NumHist
                 THEN hist_i' = hist_i + 1 /\ pc' = "plot"
                 ELSE hist_i' = hist_i /\ pc' = "scatter"
  /\ UNCHANGED <<file, rows, df, out, list_of_maps, name_list, lists, fig_ret,
                 figures, open_figs, scatter_series, tables, tables_pdf, output_pdf>>

\* area_circ_scatter = scatter_plot(list_of_maps, 'Area um^2', 'Circularity')
\* The figure is closed before it is returned.
ScatterPlot ==
  /\ pc = "scatter"
  /\ scatter_series' = scatter_plot(list_of_maps, "Area um^2", "Circularity")
  /\ figures' = figures @@ (ScatterFig :> [kind |-> "scatter", drawn |-> TRUE,
                                           bin_width |-> 0, num_bins |-> 0,
                                           x_label |-> "Area um^2", y_label |-> "Circularity"])
  /\ fig_ret' = ScatterFig
  /\ pc' = "scatter_save"
  /\ UNCHANGED <<file, rows, df, out, exc, list_of_maps, name_list, lists, hist_i,
                 open_figs, graphs_pdf, tables, tables_pdf, output_pdf>>

\* pdf.savefig(area_circ_scatter)
SaveScatter ==
  /\ pc = "scatter_save"
  /\ graphs_pdf' = [graphs_pdf EXCEPT
                      !.pages = Append(@, figure_page(savefig_target(fig_ret, open_figs)))]
  /\ pc' = "close_pdf"
  /\ UNCHANGED <<file, rows, df, out, exc, list_of_maps, name_list, lists, hist_i,
                 fig_ret, figures, open_figs, scatter_series, tables, tables_pdf,
                 output_pdf>>

\* the end of the with block; tables_pdf = "Tables.pdf"; tables = []
ClosePdf ==
  /\ pc = "close_pdf"
  /\ tables' = <<>>
  /\ pc' = "tables"
  /\ UNCHANGED <<file, rows, df, out, exc, list_of_maps, name_list, lists, hist_i,
                 fig_ret, figures, open_figs, graphs_pdf, scatter_series, tables_pdf,
                 output_pdf>>

list_named(name, names, cleaned) == IF name = "name_list" THEN names ELSE cleaned[name]

\* the create_table calls and tables.append(...)
BuildTables ==
  /\ pc = "tables"
  /\ tables' = [k \in 1..NumTables |->
                  LET c == TableCalls[k]
                  IN  create_table(c.MK_name, c.nuc_name,
                        statistic(c.MK_agg, c.MK_list, list_named(c.MK_list, name_list, lists)),
                        statistic(c.nuc_agg, c.nuc_list, list_named(c.nuc_list, name_list, lists)))]
  /\ pc' = "build_pdf"
  /\ UNCHANGED <<file, rows, df, out, exc, list_of_maps, name_list, lists, hist_i,
                 fig_ret, figures, open_figs, graphs_pdf, scatter_series, tables_pdf,
                 output_pdf>>

\* create_pdf_with_tables(tables_pdf, tables): the document is written, or
\* writing it raises (the file cannot be written) and the error is printed
CreatePdfWithTables ==
  /\ pc = "build_pdf"
  /\ \E written \in BOOLEAN :
       IF written
       THEN /\ tables_pdf' = [exists |-> TRUE, pages |-> create_pdf_with_tables(tables)]
            /\ out' = out
       ELSE /\ tables_pdf' = tables_pdf
            /\ out' = Append(out, "Error: An unexpected error occurred in create_pdf_with_tables.")
  /\ pc' = "merge"
  /\ UNCHANGED <<file, rows, df, exc, list_of_maps, name_list, lists, hist_i, fig_ret,
                 figures, open_figs, graphs_pdf, scatter_series, tables, output_pdf>>

\* what open(o_path, 'wb') can do
OutputPathStates == {"writable", "no such directory", "permission denied"}

\* merge_pdfs(tables_pdf, graphs_pdf, output_path)
MergePdfs ==
  /\ pc = "merge"
  /\ \E o_path \in OutputPathStates :
       IF ~tables_pdf.exists \/ ~graphs_pdf.exists \/ o_path = "no such directory"
       THEN /\ out' = Append(out, "Error: One or both of the PDF files not found.")
            /\ output_pdf' = output_pdf
       ELSE IF o_path = "permission denied"
       THEN /\ out' = Append(out, "Error: An unexpected error occurred during PDF merge.")
            /\ output_pdf' = output_pdf
       ELSE /\ out' = out
            /\ output_pdf' = [exists |-> TRUE,
                              pages |-> merge_pdfs(tables_pdf.pages, graphs_pdf.pages)]
  /\ pc' = "print"
  /\ UNCHANGED <<file, rows, df, exc, list_of_maps, name_list, lists, hist_i, fig_ret,
                 figures, open_figs, graphs_pdf, scatter_series, tables, tables_pdf>>

\* print("The pdf has been saved under " + output_path)
PrintSaved ==
  /\ pc = "print"
  /\ out' = Append(out, "The pdf has been saved")
  /\ pc' = "done"
  /\ UNCHANGED <<file, rows, df, exc, list_of_maps, name_list, lists, hist_i, fig_ret,
                 figures, open_figs, graphs_pdf, scatter_series, tables, tables_pdf,
                 output_pdf>>

Next ==
  \/ Load
  \/ BuildMaps
  \/ ExtractLists
  \/ OpenPdf
  \/ PlotHistogram
  \/ SaveHistogram
  \/ ScatterPlot
  \/ SaveScatter
  \/ ClosePdf
  \/ BuildTables
  \/ CreatePdfWithTables
  \/ MergePdfs
  \/ PrintSaved

Spec == Init /\ [][Next]_vars

-----------------------------------------------------------------------------
(* Properties *)

reported(message) == \E k \in 1..Len(out) : out[k] = message

\* the plot_histogram calls that have returned
returned_calls ==
  {i \in 1..NumHist : hist_i > i \/ (hist_i = i /\ pc # "plot")}

\* the list a call was given
list_of_call(i) == lists[HistCalls[i].list]

distinct_values(l) == {l[k] : k \in 1..Len(l)}

returned_none(i) == i \notin DOMAIN figures \/ ~figures[i].drawn

\* the figures that are pages of the graphs document
captured_figs == {graphs_pdf.pages[k].fig : k \in 1..Len(graphs_pdf.pages)}

\* C1: when loading the measurements file fails (missing, empty or
\* unparsable file) the loader reports it, no exception escapes the script
\* and no later stage runs: no row records, no cleaned column, no graphs or
\* tables document, no merge, no final report.
C1_LoaderFailureHaltsCleanly ==
  (file # "ok" /\ pc # "load") =>
    /\ Len(out) = 1
    /\ exc = ""
    /\ list_of_maps = <<>> /\ lists = <<>>
    /\ ~graphs_pdf.exists /\ ~tables_pdf.exists /\ ~output_pdf.exists
    /\ ~reported("The pdf has been saved")

\* C2: a histogram column whose plot_histogram call returns no figure adds
\* no page to the graphs document and does not abort the run: every page of
\* the graphs document is a figure that was drawn, and no exception escapes.
C2_DegenerateColumnSkipped ==
  (\E i \in returned_calls : returned_none(i)) =>
    /\ exc = ""
    /\ \A f \in captured_figs : figures[f].drawn

\* the bin width the table of the specification gives for a gap
table_bin_width(gap) ==
  IF gap <= 10 THEN 1
  ELSE IF 100 < gap /\ gap <= 2000 THEN 100
  ELSE IF 2000 < gap /\ gap <= 20000 THEN 1000
  ELSE IF 20000 < gap /\ gap <= 100000 THEN 5000
  ELSE IF 100000 < gap /\ gap <= 1000000 THEN 10000
  ELSE IF 1000000 < gap /\ gap <= 10000000 THEN 50000
  ELSE 1000

\* C3: for every series with at least 2 distinct values plot_histogram
\* selects the bin width by the band of gap = |max| - |min| given in the
\* table (gap <= 0.01 -> 0.001, ...) and the number of bins is
\* ceil(gap / bin_width).
C3_BinWidthByBand ==
  \A i \in returned_calls :
    Cardinality(distinct_values(list_of_call(i))) >= 2 =>
      /\ i \in DOMAIN figures
      /\ figures[i].bin_width = table_bin_width(gap_of(list_of_call(i)))
      /\ figures[i].num_bins = ceil_div(gap_of(list_of_call(i)), figures[i].bin_width)

populated(table) ==
  /\ Len(table) >= 1
  /\ \A i \in 1..Len(table) : \A c \in Columns \ {"Image", "Name"} : ~isnan(Cell(table[i], c))

rendered_figs == {f \in DOMAIN figures : figures[f].drawn}

\* C4: for a file whose columns are all populated and numeric, the merged
\* document has as many pages as histograms and scatter plots were rendered
\* plus the number of summary tables (one page per table).
C4_MergedPageCount ==
  (pc = "done" /\ populated(rows) /\ output_pdf.exists) =>
    Len(output_pdf.pages) = Cardinality(rendered_figs) + NumTables

output_stage_error ==
  \/ reported("Error: An unexpected error occurred in create_pdf_with_tables.")
  \/ reported("Error: One or both of the PDF files not found.")
  \/ reported("Error: An unexpected error occurred during PDF merge.")

\* C5: if building the tables document or the merge fails, the error is
\* reported and the final report is not produced; the output path is
\* reported as saved only in runs where the merged document was written.
C5_SavedOnlyWhenWritten ==
  /\ (pc = "done" /\ (~tables_pdf.exists \/ ~output_pdf.exists)) =>
       (output_stage_error /\ ~output_pdf.exists)
  /\ reported("The pdf has been saved") => output_pdf.exists

\* the physical quantity a column measures
quantity_of(column) ==
  CASE column \in {"Name", "Number of nuclei"} -> "number"
    [] column \in {"Area um^2", "Nuclei Area um^2: Mean"} -> "area"
    [] column \in {"Max diameter um", "Nuclei diameter um: Mean Max"} -> "max diameter"
    [] column \in {"Min diameter um", "Nuclei diameter um: Mean Min"} -> "min diameter"
    [] column \in {"Circularity", "Nuclei Circularity um: Mean"} -> "circularity"
    [] column \in {"Hematoxylin: Mean", "Nuclei Hematoxylin: Mean"} -> "hematoxylin"
    [] OTHER -> column

\* count and sum are the two "number" aggregates of the first table
aggregate_class(agg) == IF agg \in {"len", "sum"} THEN "number" ELSE agg

\* the aggregate a row label names
aggregate_named(name) ==
  CASE name \in {"Number of megakaryocytes", "Number of nuclei"} -> "number"
    [] name \in {"MK mean area", "Nuclei mean area", "MK mean max diameter",
                 "Nuclei mean max diameter", "MK mean min diameter",
                 "Nuclei mean min diameter", "MK mean circularity",
                 "Nuclei mean circularity", "MK mean hematoxylin",
                 "Nuclei mean hematoxylin"} -> "mean"
    [] OTHER -> "std"

\* C6: in every summary table the MK row and the nuclei row hold the same
\* aggregate, taken over the MK-level column and the nuclei-level column of
\* the same physical quantity, and each row label names the aggregate that
\* was computed.
C6_TablePairing ==
  \A k \in 1..Len(tables) :
    LET t == tables[k]
    IN  /\ aggregate_class(t.MK.value.agg) = aggregate_class(t.nuc.value.agg)
        /\ quantity_of(t.MK.value.column) = quantity_of(t.nuc.value.column)
        /\ aggregate_named(t.MK.name) = aggregate_class(t.MK.value.agg)
        /\ aggregate_named(t.nuc.name) = aggregate_class(t.nuc.value.agg)

scatter_done == pc \in {"scatter_save", "close_pdf", "tables", "build_pdf", "merge",
                        "print", "done"}

\* how many records of image img have the point (x, y)
records_at(img, x, y) ==
  Cardinality({i \in 1..Len(list_of_maps) :
                 /\ list_of_maps[i]["Image"] = img
                 /\ list_of_maps[i]["Area um^2"] = x
                 /\ list_of_maps[i]["Circularity"] = y})

\* how many points of series s are (x, y)
points_at(s, x, y) ==
  Cardinality({k \in 1..Len(s.x_values) : s.x_values[k] = x /\ s.y_values[k] = y})

RECURSIVE total_points(_)
total_points(S) ==
  IF S = {} THEN 0
  ELSE LET s == CHOOSE t \in S : TRUE
       IN  Len(s.x_values) + total_points(S \ {s})

\* C7: scatter_plot renders as many series as there are distinct 'Image'
\* values among the records, no two series are of the same image, the
\* points of the series of an image are exactly the points of the records
\* of that image, and there are as many points as records: every record is
\* in exactly one series, with the other records of its image.
C7_ScatterGrouping ==
  scatter_done =>
    /\ Cardinality(scatter_series) =
         Cardinality({list_of_maps[i]["Image"] : i \in 1..Len(list_of_maps)})
    /\ \A s1, s2 \in scatter_series : s1.image = s2.image => s1 = s2
    /\ \A i \in 1..Len(list_of_maps) : \E s \in scatter_series :
         s.image = list_of_maps[i]["Image"]
    /\ \A s \in scatter_series : \A i \in 1..Len(list_of_maps) :
         LET x == list_of_maps[i]["Area um^2"]
             y == list_of_maps[i]["Circularity"]
         IN  points_at(s, x, y) = records_at(s.image, x, y)
    /\ total_points(scatter_series) = Len(list_of_maps)

\* a scatter plot of three or more records in two or more series, one of
\* them with several records, two of them with the same legend label
C7_Witness ==
  /\ pc = "scatter_save"
  /\ Len(list_of_maps) >= 3
  /\ \E s \in scatter_series : Len(s.x_values) >= 2
  /\ \E s1, s2 \in scatter_series : s1 # s2 /\ s1.label = s2.label

\* the positions of the entries of l that are not NaN
kept_positions(l) == {i \in 1..Len(l) : ~isnan(l[i])}

\* C8: every cleaned list is exactly the subsequence of the entries of its
\* column that are not NaN: its k-th value is the k-th non-NaN entry (order
\* and multiplicity kept, nothing dropped, no NaN left), and the table it
\* was taken from is unchanged.
C8_FilterKeepsSubsequence ==
  lists # <<>> =>
    /\ df.rows = rows
    /\ \A l \in ListNames :
         LET in_list == ColumnToList(rows, ListColumn[l])
             new_list == lists[l]
         IN  /\ Len(new_list) = Cardinality(kept_positions(in_list))
             /\ \A k \in 1..Len(new_list) :
                  \E i \in kept_positions(in_list) :
                    /\ Cardinality({j \in kept_positions(in_list) : j <= i}) = k
                    /\ new_list[k] = in_list[i]

\* a column with a NaN between two equal values has been cleaned
C8_Witness ==
  /\ lists # <<>>
  /\ \E l \in ListNames :
       LET in_list == ColumnToList(rows, ListColumn[l])
       IN  /\ Len(in_list) = 3 /\ isnan(in_list[2])
           /\ lists[l] = <<in_list[1], in_list[3]>>
           /\ in_list[1] = in_list[3]

\* C9: a figure is closed only after it has been captured as a page of the
\* graphs document, and before the next figure is created: a figure that is
\* no longer open is a page, and at most one figure is open.
C9_FigureReleasedAfterCapture ==
  /\ \A f \in DOMAIN figures :
       (\A k \in 1..Len(open_figs) : open_figs[k] # f) => f \in captured_figs
  /\ Len(open_figs) <= 1

\* C10: for every series with at least 2 distinct values the bin count is
\* at least 1 and plot_histogram returns a figure.
C10_BinCountPositive ==
  \A i \in returned_calls :
    Cardinality(distinct_values(list_of_call(i))) >= 2 =>
      /\ i \in DOMAIN figures
      /\ figures[i].num_bins >= 1
      /\ figures[i].drawn

=============================================================================
